---- MODULE Spec2Model ----
(***************************************************************************)
(* Model of Average-Image-CLI (src/main.go): main merges a stack of        *)
(* equally sized images pixel by pixel; meanColor drops every sample that  *)
(* has a channel further than N sample standard deviations from the        *)
(* channel mean and averages the rest.                                     *)
(*                                                                         *)
(* Numbers.  The code computes in float64.  The model computes the same    *)
(* expressions over the reals, exactly: a mean is a fraction num/den, a    *)
(* standard deviation is kept as its square (a fraction), and the          *)
(* comparisons v > m + N*s and v < m - N*s are decided by sign and by      *)
(* squaring.  Products exceed 32 bits, so they are computed on             *)
(* little-endian digit sequences (Big...).  float64 rounding is not        *)
(* modelled; NaN (the standard deviation of one sample, 0/0) is.           *)
(***************************************************************************)
EXTENDS Integers, Sequences, FiniteSets

VARIABLES
    files,      \* the decodable images the glob of --path matches, in order
    N,          \* *nFlag, a positive fraction [num, den]
    pc,         \* position of main
    images,     \* main's images slice
    out,        \* main's out (*image.RGBA), NoGrid before image.NewRGBA
    x, y,       \* the loop variables of main
    writes,     \* per coordinate, the number of out.Set calls so far
    processed,  \* the coordinates meanColor was called for, in order
    mc,         \* the last call of meanColor: its argument and its results
    err,        \* the log.Fatalf that ended the run, NoErr otherwise
    created,    \* os.Create of the output file succeeded
    encoded     \* jpeg.Encode wrote the output image

vars == <<files, N, pc, images, out, x, y, writes, processed, mc, err, created, encoded>>

----------------------------------------------------------------------------
(* Bounds of the model *)

MaxImages == 2    \* images per run (Spec)
MaxStack == 3     \* samples per pixel (SpecPixel)

(* Program constants *)

MaxUint16 == 65535

----------------------------------------------------------------------------
(* Natural numbers of any size: little-endian digits, no leading zero.     *)

BASE == 100 * 100

RECURSIVE Big(_)
Big(n) == IF n = 0 THEN <<>> ELSE <<n % BASE>> \o Big(n \div BASE)

RECURSIVE BigAddC(_, _, _)
BigAddC(a, b, c) ==
    IF a = <<>> /\ b = <<>>
    THEN IF c = 0 THEN <<>> ELSE <<c>>
    ELSE LET da == IF a = <<>> THEN 0 ELSE Head(a)
             db == IF b = <<>> THEN 0 ELSE Head(b)
             ta == IF a = <<>> THEN <<>> ELSE Tail(a)
             tb == IF b = <<>> THEN <<>> ELSE Tail(b)
             s  == da + db + c
         IN  <<s % BASE>> \o BigAddC(ta, tb, s \div BASE)

BigAdd(a, b) == BigAddC(a, b, 0)

RECURSIVE BigMulDigit(_, _, _)
BigMulDigit(a, d, c) ==
    IF a = <<>>
    THEN IF c = 0 THEN <<>> ELSE <<c>>
    ELSE LET s == Head(a) * d + c
         IN  <<s % BASE>> \o BigMulDigit(Tail(a), d, s \div BASE)

RECURSIVE BigMul(_, _)
BigMul(a, b) ==
    IF a = <<>> \/ b = <<>>
    THEN <<>>
    ELSE LET low  == IF Head(b) = 0 THEN <<>> ELSE BigMulDigit(a, Head(b), 0)
             rest == BigMul(a, Tail(b))
         IN  BigAdd(low, IF rest = <<>> THEN <<>> ELSE <<0>> \o rest)

RECURSIVE BigGreaterFrom(_, _, _)
BigGreaterFrom(a, b, i) ==
    IF i = 0 THEN FALSE
    ELSE IF a[i] # b[i] THEN a[i] > b[i]
    ELSE BigGreaterFrom(a, b, i - 1)

BigGreater(a, b) ==
    IF Len(a) # Len(b) THEN Len(a) > Len(b) ELSE BigGreaterFrom(a, b, Len(a))

Abs(n) == IF n < 0 THEN -n ELSE n

----------------------------------------------------------------------------
(* Pixels: <<r, g, b, a>>, what color.Color.RGBA() returns.                *)

Channels == 1 .. 4

RECURSIVE Sum(_)
Sum(xs) == IF xs = <<>> THEN 0 ELSE Head(xs) + Sum(Tail(xs))

RECURSIVE BigSum(_)
BigSum(xs) == IF xs = <<>> THEN <<>> ELSE BigAdd(Head(xs), BigSum(Tail(xs)))

(* stats.Mean: an error on empty input, else sum / len.                    *)
Mean(xs) ==
    [err |-> Len(xs) = 0, num |-> Sum(xs), den |-> Len(xs)]

(* A variant: stats.StandardDeviation, the population standard deviation,  *)
(* which divides by len.                                                   *)
StandardDeviation(xs) ==
    LET n == Len(xs)
        S == Sum(xs)
        d == [i \in 1 .. n |-> Big(Abs(n * xs[i] - S))]
    IN  [err   |-> n = 0,
         nan   |-> FALSE,
         sqNum |-> BigSum([i \in 1 .. n |-> BigMul(d[i], d[i])]),
         sqDen |-> n * n * n]

(* stats.StandardDeviationSample: an error on empty input; else            *)
(* sqrt(sum((v - m)^2) / (len - 1)), which for one value is sqrt(0/0), a   *)
(* NaN returned without error.  With m = S/n the square of the result is   *)
(* sum((n*v - S)^2) / (n*n*(n-1)), kept as sqNum / sqDen.                  *)
StandardDeviationSample(xs) ==
    LET n == Len(xs)
        S == Sum(xs)
        d == [i \in 1 .. n |-> Big(Abs(n * xs[i] - S))]
    IN  [err   |-> n = 0,
         nan   |-> n = 1,
         sqNum |-> BigSum([i \in 1 .. n |-> BigMul(d[i], d[i])]),
         sqDen |-> n * n * (n - 1)]

(* A variant: |v - m| > s / Nf, the threshold divided by N.                *)
FartherThanOverN(v, m, s, Nf) ==
    LET D == Big(Abs(v * m.den - m.num))
    IN  BigGreater(
            BigMul(BigMul(D, D), Big(s.sqDen * Nf.num * Nf.num)),
            BigMul(s.sqNum, Big(Nf.den * Nf.den * m.den * m.den)))

(* |v - m| >= Nf * s *)
AtLeastAsFar(v, m, s, Nf) ==
    LET D == Big(Abs(v * m.den - m.num))
    IN  ~BigGreater(
            BigMul(s.sqNum, Big(Nf.num * Nf.num * m.den * m.den)),
            BigMul(BigMul(D, D), Big(s.sqDen * Nf.den * Nf.den)))

(* |v - m| > Nf * s, for m = m.num/m.den and s = sqrt(s.sqNum/s.sqDen):     *)
(* (v*den - num)^2 * sqDen * Nf.den^2 > Nf.num^2 * sqNum * den^2.           *)
FartherThan(v, m, s, Nf) ==
    LET D == Big(Abs(v * m.den - m.num))
    IN  BigGreater(
            BigMul(BigMul(D, D), Big(s.sqDen * Nf.den * Nf.den)),
            BigMul(s.sqNum, Big(Nf.num * Nf.num * m.den * m.den)))

(* A variant: float64(v) >= m + Nf*s.                                      *)
AboveOrAt(v, m, s, Nf) ==
    /\ ~s.nan
    /\ v * m.den >= m.num
    /\ AtLeastAsFar(v, m, s, Nf)

(* float64(v) > m + Nf*s: false when s is NaN.                             *)
Above(v, m, s, Nf) ==
    /\ ~s.nan
    /\ v * m.den > m.num
    /\ FartherThan(v, m, s, Nf)

(* A variant: float64(v) <= m - Nf*s.                                      *)
BelowOrAt(v, m, s, Nf) ==
    /\ ~s.nan
    /\ v * m.den <= m.num
    /\ AtLeastAsFar(v, m, s, Nf)

(* float64(v) < m - Nf*s: false when s is NaN.                             *)
Below(v, m, s, Nf) ==
    /\ ~s.nan
    /\ v * m.den < m.num
    /\ FartherThan(v, m, s, Nf)

----------------------------------------------------------------------------
(* meanColor *)

Indices(cs) == [i \in 1 .. Len(cs) |-> i]

(* The slice of one channel's values, in input order (rs, gs, bs, as).     *)
channelOf(cs, c) == [i \in 1 .. Len(cs) |-> cs[i][c]]

means(cs) ==
    <<Mean(channelOf(cs, 1)), Mean(channelOf(cs, 2)),
      Mean(channelOf(cs, 3)), Mean(channelOf(cs, 4))>>

(* A variant: the red channel's standard deviation in all four tests.      *)
stddevsOfRed(cs) ==
    <<StandardDeviationSample(channelOf(cs, 1)), StandardDeviationSample(channelOf(cs, 1)),
      StandardDeviationSample(channelOf(cs, 1)), StandardDeviationSample(channelOf(cs, 1))>>

stddevs(cs) ==
    <<StandardDeviationSample(channelOf(cs, 1)), StandardDeviationSample(channelOf(cs, 2)),
      StandardDeviationSample(channelOf(cs, 3)), StandardDeviationSample(channelOf(cs, 4))>>

(* One of the four tests of the filter loop.                               *)
Outside(v, m, s, Nf) == Above(v, m, s, Nf) \/ Below(v, m, s, Nf)

(* A variant: the tests of R, G and B only, as the package comment words   *)
(* the filter.                                                             *)
RECURSIVE rejectFromRGB(_, _, _, _, _)
rejectFromRGB(p, ms, ss, Nf, c) ==
    IF c > 3 THEN 0
    ELSE IF Above(p[c], ms[c], ss[c], Nf) \/ Below(p[c], ms[c], ss[c], Nf) THEN c
    ELSE rejectFromRGB(p, ms, ss, Nf, c + 1)

(* The filter loop's body for one color: the first channel, in the order   *)
(* R, G, B, A, whose test makes the loop continue; 0 when none does and    *)
(* the color is appended to the four filtered slices.                      *)
RECURSIVE rejectFrom(_, _, _, _, _)
rejectFrom(p, ms, ss, Nf, c) ==
    IF c > 4 THEN 0
    ELSE IF Outside(p[c], ms[c], ss[c], Nf) THEN c
    ELSE rejectFrom(p, ms, ss, Nf, c + 1)

RECURSIVE rejectedFrom(_, _, _, _, _)
rejectedFrom(cs, ms, ss, Nf, i) ==
    IF i > Len(cs) THEN <<>>
    ELSE <<rejectFrom(cs[i], ms, ss, Nf, 1)>> \o rejectedFrom(cs, ms, ss, Nf, i + 1)

(* For each color, in input order, the channel that rejected it.           *)
rejectedBy(cs, Nf) == rejectedFrom(cs, means(cs), stddevs(cs), Nf, 1)

(* The indices of the colors appended to the filtered slices.              *)
filtered(cs, by) == SelectSeq(Indices(cs), LAMBDA i : by[i] = 0)

(* float64 -> integer part of a non-negative fraction.                     *)
Trunc(m) == m.num \div m.den

(* uint16(f) for the truncated value t of f: t when it fits; otherwise the *)
(* language leaves the value to the implementation (wrapped or saturated). *)
Uint16(t) == IF t <= MaxUint16 THEN {t} ELSE {t % (MaxUint16 + 1), MaxUint16}

NoColor == <<0, 0, 0, 0>>

(* meanColor up to its return statement: err is "none" or the error        *)
(* returned, kept the indices of the colors that pass the filter, by the   *)
(* channel that rejected each color (0: none), mean the truncated means    *)
(* of the filtered slices.                                                 *)
meanColor(cs, Nf) ==
    IF Len(cs) = 0
    THEN [err |-> "mean", kept |-> <<>>, by |-> <<>>, mean |-> NoColor]
    ELSE LET by   == rejectedBy(cs, Nf)
             kept == filtered(cs, by)
         IN  IF Len(kept) = 0
             THEN [err |-> "removed", kept |-> kept, by |-> by, mean |-> NoColor]
             ELSE [err  |-> "none",
                   kept |-> kept,
                   by   |-> by,
                   mean |-> [c \in Channels |->
                       Trunc(Mean([k \in 1 .. Len(kept) |-> cs[kept[k]][c]]))]]

(* The values color.RGBA64{uint16(rMean), ...} can take.                   *)
RGBA64(mean) ==
    {<<r, g, b, a>> : r \in Uint16(mean[1]), g \in Uint16(mean[2]),
                      b \in Uint16(mean[3]), a \in Uint16(mean[4])}

----------------------------------------------------------------------------
(* Images and main *)

Points(r) == {<<px, py>> : px \in r.minX .. r.maxX - 1, py \in r.minY .. r.maxY - 1}

(* image.Image.At: the zero color outside the image's bounds.              *)
At(img, p) == IF p \in DOMAIN img.pix THEN img.pix[p] ELSE <<0, 0, 0, 0>>

(* colors(x, y, images): each image's color at (x, y), in input order.     *)
colors(px, py, imgs) == [i \in 1 .. Len(imgs) |-> At(imgs[i], <<px, py>>)]

(* image.RGBA.Set: color.RGBAModel keeps the high byte of each channel.    *)
RGBAModel(c) == [ch \in Channels |-> c[ch] \div 256]

NoGrid == [alloc |-> FALSE]
NoErr == [kind |-> "none"]
NoCall == [called |-> FALSE]

(* Every coordinate the model's rectangles can hold.                       *)
Universe == {<<px, py>> : px \in 0 .. 3, py \in 0 .. 3}

(* image.NewRGBA: every pixel zero.                                        *)
NewRGBA(r) == [alloc |-> TRUE, bounds |-> r, pix |-> [p \in Points(r) |-> NoColor]]

(* image.RGBA.Set: nothing outside the bounds.                             *)
Set(grid, p, c) ==
    IF p \in Points(grid.bounds) THEN [grid EXCEPT !.pix[p] = RGBAModel(c)] ELSE grid

(* A variant: only the widths are compared.                                *)
widthsDiffer(imgs) ==
    \E i \in 1 .. Len(imgs) :
        imgs[i].bounds.maxX - imgs[i].bounds.minX # imgs[1].bounds.maxX - imgs[1].bounds.minX

(* The bounds test: some image's bounds differ from the first image's.     *)
boundsDiffer(imgs) == \E i \in 1 .. Len(imgs) : imgs[i].bounds # imgs[1].bounds

(* A variant: the loops exchanged, columns outer and rows inner.           *)
advanceColumnMajor(bounds, px, py) ==
    IF py + 1 < bounds.maxY
    THEN [x |-> px, y |-> py + 1, pc |-> "loop"]
    ELSE [x  |-> px + 1,
          y  |-> bounds.minY,
          pc |-> IF px + 1 < bounds.maxX THEN "loop" ELSE "create"]

(* A variant: the outer loop ends after its first row.                     *)
advanceOneRow(bounds, px, py) ==
    IF px + 1 < bounds.maxX
    THEN [x |-> px + 1, y |-> py, pc |-> "loop"]
    ELSE [x |-> bounds.minX, y |-> py + 1, pc |-> "create"]

(* The increments and tests of the two loops after the body ran at         *)
(* (px, py): the next coordinate, or the end of the loops.                 *)
advance(bounds, px, py) ==
    IF px + 1 < bounds.maxX
    THEN [x |-> px + 1, y |-> py, pc |-> "loop"]
    ELSE [x  |-> bounds.minX,
          y  |-> py + 1,
          pc |-> IF py + 1 < bounds.maxY THEN "loop" ELSE "create"]

Fatal(e) ==
    /\ pc' = "fatal"
    /\ err' = e

(* filepath.Glob and the check that it matched something.                  *)
Glob ==
    /\ pc = "glob"
    /\ IF Len(files) = 0
       THEN Fatal([kind |-> "no files"])
       ELSE pc' = "decode" /\ err' = err
    /\ UNCHANGED <<files, N, images, out, x, y, writes, processed, mc, created, encoded>>

(* The loop that opens and decodes every path.                             *)
Decode ==
    /\ pc = "decode"
    /\ images' = files
    /\ pc' = "bounds"
    /\ UNCHANGED <<files, N, out, x, y, writes, processed, mc, err, created, encoded>>

(* os.Open or image.Decode fails on some path.                             *)
DecodeFail ==
    /\ pc = "decode"
    /\ Fatal([kind |-> "decode"])
    /\ UNCHANGED <<files, N, images, out, x, y, writes, processed, mc, created, encoded>>

(* The bounds comparison, image.NewRGBA and the entry of the two loops.    *)
CheckBounds ==
    /\ pc = "bounds"
    /\ LET bounds == images[1].bounds
       IN  IF boundsDiffer(images)
           THEN /\ Fatal([kind |-> "sizes"])
                /\ UNCHANGED <<out, x, y>>
           ELSE /\ out' = NewRGBA(bounds)
                /\ x' = bounds.minX
                /\ y' = bounds.minY
                /\ pc' = IF Points(bounds) = {} THEN "create" ELSE "loop"
                /\ err' = err
    /\ UNCHANGED <<files, N, images, writes, processed, mc, created, encoded>>

(* One iteration of the inner loop, with the loops' increments and tests.  *)
Pixel ==
    /\ pc = "loop"
    /\ LET bounds == images[1].bounds
           cs     == colors(x, y, images)
           r      == meanColor(cs, N)
       IN  /\ processed' = Append(processed, <<x, y>>)
           /\ IF r.err # "none"
              THEN /\ Fatal([kind |-> "meanColor", x |-> x, y |-> y, err |-> r.err])
                   /\ mc' = [called |-> TRUE, colors |-> cs, res |-> r, c |-> NoColor]
                   /\ UNCHANGED <<out, x, y, writes>>
              ELSE \E c \in RGBA64(r.mean) :
                   /\ mc' = [called |-> TRUE, colors |-> cs, res |-> r, c |-> c]
                   /\ out' = Set(out, <<x, y>>, c)
                   /\ writes' = IF <<x, y>> \in Points(out.bounds)
                                THEN [writes EXCEPT ![<<x, y>>] = @ + 1]
                                ELSE writes
                   /\ err' = err
                   /\ x' = advance(bounds, x, y).x
                   /\ y' = advance(bounds, x, y).y
                   /\ pc' = advance(bounds, x, y).pc
    /\ UNCHANGED <<files, N, images, created, encoded>>

(* os.Create of the output file *)
Create ==
    /\ pc = "create"
    /\ \/ created' = TRUE /\ pc' = "encode" /\ err' = err
       \/ created' = created /\ Fatal([kind |-> "create"])
    /\ UNCHANGED <<files, N, images, out, x, y, writes, processed, mc, encoded>>

(* jpeg.Encode(f, out, ...) *)
Encode ==
    /\ pc = "encode"
    /\ \/ encoded' = TRUE /\ pc' = "done" /\ err' = err
       \/ encoded' = encoded /\ Fatal([kind |-> "encode"])
    /\ UNCHANGED <<files, N, images, out, x, y, writes, processed, mc, created>>

----------------------------------------------------------------------------
(* Inputs *)

Frac(n, d) == [num |-> n, den |-> d]

(* The default of the flag --N is 1.3.                                     *)
DefaultN == Frac(13, 10)

(* Rectangles as image.Rectangle: Min inclusive, Max exclusive.            *)
Rect(x0, y0, x1, y1) == [minX |-> x0, minY |-> y0, maxX |-> x1, maxY |-> y1]

SeqsUpTo(S, n) == UNION {[1 .. k -> S] : k \in 0 .. n}

ImagesOf(r, palette) == {[bounds |-> r, pix |-> f] : f \in [Points(r) -> palette]}

(* Whole runs: images of two rows and two columns whose bounds do not      *)
(* start at the origin, and one image of another size.                     *)
RunRect == Rect(1, 2, 3, 4)
OtherRect == Rect(0, 0, 2, 1)
Opaque == MaxUint16
RunPalette == {<<0, 0, 0, Opaque>>, <<514, 0, 0, Opaque>>}
RunFiles == ImagesOf(RunRect, RunPalette) \cup ImagesOf(OtherRect, {<<0, 0, 0, Opaque>>})
RunN == {Frac(1, 2), DefaultN}

(* Runs over images of one pixel: the stack of samples of one coordinate.  *)
UnitRect == Rect(0, 0, 1, 1)
PixelPalette ==
    {<<0, 0, 0, 0>>, <<1, 0, 0, 0>>, <<2, 0, 0, 0>>, <<100, 0, 0, 0>>,
     <<1000000, 0, 0, 0>>, <<0, 3, 0, 0>>, <<2, 0, 0, 3>>, <<10, 10, 10, 255>>}
PixelFiles == ImagesOf(UnitRect, PixelPalette)
PixelN == {Frac(1, 2), Frac(1, 1), DefaultN}

InitWith(fileSeqs, ns) ==
    /\ files \in fileSeqs
    /\ N \in ns
    /\ pc = "glob"
    /\ images = <<>>
    /\ out = NoGrid
    /\ x = 0
    /\ y = 0
    /\ writes = [p \in Universe |-> 0]
    /\ processed = <<>>
    /\ mc = NoCall
    /\ err = NoErr
    /\ created = FALSE
    /\ encoded = FALSE

Init == InitWith(SeqsUpTo(RunFiles, MaxImages), RunN)

InitPixel == InitWith(SeqsUpTo(PixelFiles, MaxStack), PixelN)

Next ==
    \/ Glob
    \/ Decode
    \/ DecodeFail
    \/ CheckBounds
    \/ Pixel
    \/ Create
    \/ Encode

Spec == Init /\ [][Next]_vars

SpecPixel == InitPixel /\ [][Next]_vars

----------------------------------------------------------------------------
(* The filter as the specification words it, for the last call of          *)
(* meanColor.  With S the sum of a channel over the n samples and          *)
(* D(i) = n*v(i) - S, sample i lies beyond mean +- Nf*stddev exactly when  *)
(* D(i)^2 * (n-1) * Nf.den^2 > Nf.num^2 * (D(1)^2 + ... + D(n)^2), and on  *)
(* the boundary when the two sides are equal.                              *)

SpecDev(cs, i, ch) == Big(Abs(Len(cs) * cs[i][ch] - Sum(channelOf(cs, ch))))

SpecLeft(cs, i, ch, Nf) ==
    BigMul(BigMul(SpecDev(cs, i, ch), SpecDev(cs, i, ch)),
           Big((Len(cs) - 1) * Nf.den * Nf.den))

SpecRight(cs, ch, Nf) ==
    BigMul(BigSum([j \in 1 .. Len(cs) |->
                      BigMul(SpecDev(cs, j, ch), SpecDev(cs, j, ch))]),
           Big(Nf.num * Nf.num))

SpecBeyond(cs, i, ch, Nf) == BigGreater(SpecLeft(cs, i, ch, Nf), SpecRight(cs, ch, Nf))

SpecOnBoundary(cs, i, ch, Nf) ==
    /\ SpecLeft(cs, i, ch, Nf) = SpecRight(cs, ch, Nf)
    /\ SpecRight(cs, ch, Nf) # <<>>

SpecSurvivors(cs, Nf) ==
    LET right == <<SpecRight(cs, 1, Nf), SpecRight(cs, 2, Nf),
                   SpecRight(cs, 3, Nf), SpecRight(cs, 4, Nf)>>
    IN  {i \in 1 .. Len(cs) :
            \A ch \in Channels : ~BigGreater(SpecLeft(cs, i, ch, Nf), right[ch])}

RECURSIVE SetSum(_, _, _)
SetSum(cs, ch, I) ==
    IF I = {} THEN 0
    ELSE LET i == CHOOSE k \in I : TRUE
         IN  cs[i][ch] + SetSum(cs, ch, I \ {i})

(* Every channel value is one color.Color.RGBA() may return: 16 bits.      *)
InRange(cs) == \A i \in 1 .. Len(cs) : \A ch \in Channels : cs[i][ch] <= MaxUint16

Range(f) == {f[i] : i \in DOMAIN f}

----------------------------------------------------------------------------
----------------------------------------------------------------------------
(* Whole runs *)

NoWrites == \A p \in Universe : writes[p] = 0

(* The coordinates of a rectangle row by row: rows outer, columns inner.   *)
RowMajor(r) ==
    [k \in 1 .. (r.maxX - r.minX) * (r.maxY - r.minY) |->
        <<r.minX + ((k - 1) % (r.maxX - r.minX)),
          r.minY + ((k - 1) \div (r.maxX - r.minX))>>]

IsPrefix(a, b) == Len(a) <= Len(b) /\ \A k \in 1 .. Len(a) : a[k] = b[k]

(* Every sample of the stack at coordinate p is beyond the threshold on    *)
(* some channel.                                                           *)
AllRejectedAt(p) == SpecSurvivors([i \in 1 .. Len(files) |-> files[i].pix[p]], N) = {}

(* C3, as claimed: a run given fewer than two input images processes no    *)
(* pixel, creates no output file and encodes no output image.              *)
C3_FewerThanTwoAborts ==
    Len(files) < 2
    => /\ processed = <<>>
       /\ NoWrites
       /\ ~created
       /\ ~encoded
       /\ pc # "done"

(* C4: when every sample is rejected at some coordinate, the run ends      *)
(* with a fatal error naming that coordinate: the coordinates are taken    *)
(* row by row, the failing one is the last one processed, every earlier    *)
(* one kept a sample, and no output file is created or encoded.            *)
C4_FirstAllRejectedIsFatal ==
    (processed # <<>>)
    => /\ IsPrefix(processed, RowMajor(files[1].bounds))
       /\ \A k \in 1 .. Len(processed) :
              AllRejectedAt(processed[k])
              => /\ k = Len(processed)
                 /\ pc = "fatal"
                 /\ err = [kind |-> "meanColor", x |-> processed[k][1],
                           y |-> processed[k][2], err |-> "removed"]
                 /\ ~created
                 /\ ~encoded
                 /\ writes[processed[k]] = 0

(* The run failed at the second row's first coordinate, after three        *)
(* coordinates, with a coordinate left that is never processed.            *)
C4_Witness ==
    /\ pc = "fatal"
    /\ err.kind = "meanColor"
    /\ Len(processed) = 3
    /\ processed[3] = <<1, 3>>
    /\ AllRejectedAt(<<2, 3>>)

(* C8: when the input images do not all share the first image's bounds,    *)
(* the run never allocates the output grid, composites no coordinate and   *)
(* creates no output file; once the bounds were compared it has ended      *)
(* with the fatal error about sizes.                                       *)
C8_MismatchAbortsBeforePixels ==
    (\E i \in 1 .. Len(files) : files[i].bounds # files[1].bounds)
    => /\ out = NoGrid
       /\ processed = <<>>
       /\ NoWrites
       /\ ~created
       /\ ~encoded
       /\ pc \in {"glob", "decode", "bounds", "fatal"}
       /\ (pc = "fatal" => err.kind \in {"decode", "sizes"})

(* The run ended on images of equal width and different bounds.            *)
C8_Witness ==
    /\ pc = "fatal"
    /\ err.kind = "sizes"
    /\ files[1].bounds = RunRect

(* The state part of C9: the grids in memory are the decoded files, no     *)
(* coordinate has been written twice, and after the loops the written      *)
(* coordinates are exactly those with Min <= coordinate < Max, once each.  *)
C9_State ==
    /\ images \in {<<>>, files}
    /\ \A p \in Universe : writes[p] <= 1
    /\ (pc \in {"create", "encode", "done"} \/ err.kind \in {"create", "encode"})
       => \A p \in Universe :
              writes[p] = IF /\ files[1].bounds.minX <= p[1]
                             /\ p[1] < files[1].bounds.maxX
                             /\ files[1].bounds.minY <= p[2]
                             /\ p[2] < files[1].bounds.maxY
                          THEN 1 ELSE 0

(* C9: the input grids are never modified; every coordinate is written at *)
(* most once; and when the loops are over (the output file is about to be  *)
(* created or encoded, or has been) every coordinate with                  *)
(* Min <= coordinate < Max has been written exactly once and no other      *)
(* coordinate has been written.                                            *)
C9_WrittenExactlyOnce == [](C9_State) /\ [][files' = files]_vars

(* The run reached the encoding step on images whose bounds do not start   *)
(* at the origin.                                                          *)
C9_Witness ==
    /\ pc = "encode"
    /\ out.bounds = RunRect
    /\ Len(images) = 2

----------------------------------------------------------------------------
(* Single coordinates *)

(* The samples of end-to-end scenario 3, in any input order: red values    *)
(* 0, 100 and 1000000 with the other channels constant, and N = 1.3.       *)
Scenario3 ==
    /\ mc.called
    /\ N = DefaultN
    /\ Len(mc.colors) = 3
    /\ Range(mc.colors) = {<<0, 0, 0, 0>>, <<100, 0, 0, 0>>, <<1000000, 0, 0, 0>>}

Rejected(res) == {i \in DOMAIN res.by : res.by[i] # 0}

LessEq(N1, N2) == N1.num * N2.den <= N2.num * N1.den

(* C6: the filter is monotonic in N: whatever the run's N rejects, every   *)
(* smaller N rejects too, and if meanColor does not fail with all pixels   *)
(* removed under a smaller N it does not under the run's N either.         *)
C6_MonotonicInN ==
    (mc.called /\ Len(mc.colors) > 0)
    => \A N1 \in PixelN \ {N} :
          LessEq(N1, N)
          => LET res1 == meanColor(mc.colors, N1)
             IN  /\ Rejected(mc.res) \subseteq Rejected(res1)
                 /\ (res1.err # "removed" => mc.res.err # "removed")

(* The run's N rejects some sample and keeps some sample that a smaller N  *)
(* rejects.                                                                *)
C6_Witness ==
    /\ mc.called
    /\ Rejected(mc.res) # {}
    /\ mc.res.err = "none"
    /\ \E N1 \in PixelN :
          /\ LessEq(N1, N)
          /\ Rejected(mc.res) # Rejected(meanColor(mc.colors, N1))
          /\ meanColor(mc.colors, N1).err = "removed"

Identical(cs) == \A i \in 1 .. Len(cs) : cs[i] = cs[1]

(* C7: for a stack of two or more identical 16-bit pixels meanColor        *)
(* returns no error, keeps every sample, and returns the input pixel.      *)
C7_IdenticalStack ==
    (mc.called /\ Len(mc.colors) >= 2 /\ Identical(mc.colors) /\ InRange(mc.colors))
    => /\ mc.res.err = "none"
       /\ mc.res.kept = Indices(mc.colors)
       /\ mc.c = mc.colors[1]

(* End-to-end scenario 1 and its output pixel, written to the grid.        *)
C7_Witness ==
    /\ mc.called
    /\ N = DefaultN
    /\ mc.colors = <<(<<10, 10, 10, 255>>), (<<10, 10, 10, 255>>)>>
    /\ mc.c = <<10, 10, 10, 255>>
    /\ writes[<<0, 0>>] = 1

(* The channels on which the samples of a stack are not all equal.         *)
VaryingChannels(cs) == {ch \in Channels : \E i \in 1 .. Len(cs) : cs[i][ch] # cs[1][ch]}

(* C10: with N >= 1, a non-empty stack whose samples differ in at most one *)
(* channel keeps a sample, so meanColor does not fail with all pixels      *)
(* removed; when it does fail so, two samples were rejected by different   *)
(* channels.                                                               *)
C10_OneChannelKeepsASample ==
    (mc.called /\ Len(mc.colors) > 0 /\ LessEq(Frac(1, 1), N))
    => /\ Cardinality(VaryingChannels(mc.colors)) <= 1 => mc.res.err = "none"
       /\ mc.res.err = "removed"
          => \E i, j \in 1 .. Len(mc.colors) :
                 /\ mc.res.by[i] # 0
                 /\ mc.res.by[j] # 0
                 /\ mc.res.by[i] # mc.res.by[j]

(* With N >= 1, samples that differ in one channel only: one is rejected,  *)
(* the others are kept.                                                    *)
C10_Witness ==
    /\ mc.called
    /\ LessEq(Frac(1, 1), N)
    /\ Cardinality(VaryingChannels(mc.colors)) = 1
    /\ \E i \in 1 .. Len(mc.colors) : mc.res.by[i] # 0
    /\ mc.res.err = "none"

(* With N >= 1, every sample rejected, by three different channels.        *)
C10_AllRemoved ==
    /\ mc.called
    /\ LessEq(Frac(1, 1), N)
    /\ mc.res.err = "removed"
    /\ Cardinality(Range(mc.res.by)) = 3

====
